---- MODULE Spec2Model ----
(***************************************************************************)
(* Bulk validation jobs of apps/zadmin/tasks.py: the job expander          *)
(* (add_validation_jobs), the validation worker (bulk_validate_file) and   *)
(* the completion tallier (tally_job_results), as concurrent celery tasks  *)
(* over one relational store, and the two notifiers (notify_success,       *)
(* notify_failed) an operator starts on the results of a job.              *)
(*                                                                         *)
(* Every step of a task is one statement that touches the store, the queue *)
(* or the mailer; the statements between two such steps are local to the   *)
(* task and are folded into the step that follows them.                    *)
(***************************************************************************)
EXTENDS Integers, Sequences, FiniteSets, Bags, TLC

VARIABLES
    files,      \* catalog: file id -> [version, status]
    versions,   \* catalog: version id -> [addon, apps], apps a set of [application, max]
    jobs,       \* validation_job table: job id -> row
    results,    \* validation_result table: sequence of rows, pk = index
    queue,      \* bulk_validate_file messages waiting in the task queue, per result pk
    exp,        \* add_validation_jobs calls (one per chunk): their locals and position
    w,          \* bulk_validate_file runs, per result pk: their locals and position
    retries,    \* how many times the queue has delivered a message again
    caller,     \* a direct call of tally_job_results: its locals and position
    calls,      \* how many direct calls of tally_job_results were made
    mails,      \* operator completion e-mails handed to send_mail
    now,        \* the clock read by datetime.now()
    authors,    \* catalog: add-on id -> the users who are its authors
    call,       \* the notifier task that has run: its name and arguments
    outbox,     \* bag of the messages the notifiers handed to a mail function
    audit       \* bag of the entries the notifiers wrote with amo.log

\* what the notifiers alone read or write
nvars == <<authors, call, outbox, audit>>

vars == <<files, versions, jobs, results, queue, exp, w, retries, caller, calls,
          mails, now, authors, call, outbox, audit>>

----------------------------------------------------------------------------
(* Bounds of the model. *)

\* file ids of a catalog are 1..MaxFiles
MaxFiles == 3
\* version ids of a catalog are 1..MaxVersions
MaxVersions == 3
\* invocations beyond the first delivery of each message: redeliveries of
\* bulk_validate_file messages (at-least-once execution) and calls of
\* tally_job_results on its own, together
MaxRepeats == 1

FileIds == 1..MaxFiles
VersionIds == 1..MaxVersions
\* one result row per file at most: result pks are 1..MaxFiles
ResultIds == 1..MaxFiles
\* add-on ids: a catalog has no more add-ons than versions
AddonIds == 1..MaxVersions

----------------------------------------------------------------------------
(* Values. *)

\* SQL NULL / Python None in a numeric or timestamp column
NULL == -1
\* Python None in a text column or a local variable
None == "None"

\* amo.STATUS_* of a file, by name
STATUS_PUBLIC == "PUBLIC"
STATUS_LITE == "LITE"
STATUS_LITE_AND_NOMINATED == "LITE_AND_NOMINATED"
STATUS_UNREVIEWED == "UNREVIEWED"
STATUS_BETA == "BETA"
STATUS_DISABLED == "DISABLED"

Status == {STATUS_PUBLIC, STATUS_LITE, STATUS_LITE_AND_NOMINATED,
           STATUS_UNREVIEWED, STATUS_BETA, STATUS_DISABLED}

\* amo.STATUS_UNDER_REVIEW
STATUS_UNDER_REVIEW == {STATUS_UNREVIEWED, STATUS_LITE_AND_NOMINATED}
\* amo.LITE_STATUSES
LITE_STATUSES == {STATUS_LITE, STATUS_LITE_AND_NOMINATED}
\* prelim_app = list(amo.STATUS_UNDER_REVIEW) + [amo.STATUS_BETA]
prelim_app == STATUS_UNDER_REVIEW \cup {STATUS_BETA}

\* the job of the model, its application and its two app versions
JobId == 1
JobIds == {JobId}
App == "firefox"
OtherApp == "thunderbird"
CurrMax == "3.6"
Target == "4.0"

\* the operator notification address of a job, or none
NoEmail == ""
OpsEmail == "ops@example.com"

----------------------------------------------------------------------------
(* The catalog: add-ons, versions, files (owned by the external store). *)

\* the compatibility entry (ApplicationsVersions) the job looks for
Compat(application, max) == [application |-> application, max |-> max]

\* a version of add-on 1 in the job's scope
InScope == [addon |-> 1, apps |-> {Compat(App, CurrMax)}]

\* versions out of the job's scope for add-on 1: one whose entries match only
\* field by field across two entries, and one of another add-on
OutOfScope ==
    { [addon |-> 1, apps |-> {Compat(App, Target), Compat(OtherApp, CurrMax)}],
      [addon |-> 2, apps |-> {Compat(App, CurrMax)}] }

\* file ids follow version ids (the code never compares file ids)
FileTables ==
    { t \in [FileIds -> [version : VersionIds, status : Status]] :
        \A f, g \in FileIds : f < g => t[f].version <= t[g].version }

\* at most one version of a catalog is out of scope
VersionTables ==
    { t \in [VersionIds -> {InScope} \cup OutOfScope] :
        \A u, v \in VersionIds : t[u] # InScope /\ t[v] # InScope => u = v }

\* the catalog of the job runs: add-on 1 has no file that qualifies, add-on 2
\* has a public file, add-on 3 has a beta file
JobFiles ==
    [f \in FileIds |->
        CASE f = 2 -> [version |-> 2, status |-> STATUS_PUBLIC]
          [] f = 3 -> [version |-> 3, status |-> STATUS_BETA]
          [] OTHER -> [version |-> 1, status |-> STATUS_DISABLED]]

JobVersions ==
    [v \in VersionIds |->
        CASE v = 2 -> [addon |-> 2, apps |-> {Compat(App, CurrMax)}]
          [] v = 3 -> [addon |-> 3, apps |-> {Compat(App, CurrMax)}]
          [] OTHER -> [addon |-> 1, apps |-> {Compat(App, CurrMax)}]]

\* the chunks of add-on pks the job runs pass to add_validation_jobs
JobChunks == << <<1, 2>>, <<3>> >>

\* the calls of add_validation_jobs, one per chunk
ChunkIds == DOMAIN JobChunks

----------------------------------------------------------------------------
(* add_validation_jobs: the selection of file ids for one add-on. *)

\* version.files.all()
FilesOf(v) == {f \in DOMAIN files : files[f].version = v}

\* file.version.addon
AddonOfFile(f) == versions[files[f].version].addon

\* base = addon.versions.filter(apps__application=..., apps__max=...)
Base(job, addon) ==
    { v \in DOMAIN versions :
        /\ versions[v].addon = addon
        /\ \E a \in versions[v].apps :
              a.application = job.application /\ a.max = job.curr_max_version }

\* qs.filter(files__status__in=statuses)
FilterStatus(qs, statuses) ==
    {v \in qs : \E f \in FilesOf(v) : files[f].status \in statuses}

\* try: qs.latest('id') except ObjectDoesNotExist: None
Latest(qs) ==
    IF qs = {} THEN NULL ELSE CHOOSE v \in qs : \A x \in qs : x <= v

\* (mutant) the id__gt condition is left out
IdAny(qs, pk) == qs

\* qs.filter(id__gt=pk)
IdGt(qs, pk) == {v \in qs : v > pk}

\* qs.filter(files__status__in=statuses).values_list('files__id', flat=True)
\* (the values come from the join the filter made: the files of those statuses)
FileIdsWithStatus(qs, statuses) ==
    {f \in DOMAIN files : files[f].version \in qs /\ files[f].status \in statuses}

\* the body of the loop up to ids = set(ids)
SelectIds(job, addon) ==
    LET base == Base(job, addon)
        public == Latest(FilterStatus(base, {STATUS_PUBLIC}))
        prelim == Latest(FilterStatus(base, LITE_STATUSES))
    IN  IF public # NULL
        THEN FilesOf(public) \cup FileIdsWithStatus(IdGt(base, public), prelim_app)
        ELSE IF prelim # NULL
             THEN FilesOf(prelim)
                  \cup FileIdsWithStatus(IdGt(base, prelim), prelim_app)
             ELSE FileIdsWithStatus(base, prelim_app)

----------------------------------------------------------------------------
(* Initial states. *)

\* ValidationResult.objects.create(validation_job_id=job_pk, file_id=id)
NewResult(job_pk, file_id) ==
    [validation_job |-> job_pk, file |-> file_id, completed |-> NULL,
     validation |-> None, errors |-> 0, task_error |-> None]

\* a ValidationJob as the job creation flow leaves it
NewJob(email) ==
    [application |-> App, curr_max_version |-> CurrMax, target_version |-> Target,
     completed |-> NULL, finish_email |-> email]

\* an add_validation_jobs call that has not started
NewCall(pks) ==
    [pc |-> "loop", addons |-> pks, addon |-> NULL, ids |-> {}, todo |-> {},
     id |-> NULL, result |-> NULL]

\* the locals of a bulk_validate_file message that was never delivered
IdleWorker ==
    [pc |-> "idle", res |-> NewResult(NULL, NULL), task_error |-> None,
     validation |-> None, total |-> NULL, completed |-> NULL, was |-> NULL]

\* no tally_job_results call in progress
IdleCaller == [pc |-> "idle", total |-> NULL, completed |-> NULL, was |-> NULL]

\* no notifier task has run
NoCall == [fn |-> "none", pks |-> {}, preview_only |-> FALSE]

\* nothing was mailed to an author and nothing was logged
NotNotified ==
    /\ call = NoCall
    /\ outbox = EmptyBag
    /\ audit = EmptyBag

\* the add-ons of the job runs have one author each
JobAuthors == [a \in AddonIds |-> {1}]

InitWith(fs, vs, chunks, email) ==
    /\ files = fs
    /\ versions = vs
    /\ jobs = [j \in JobIds |-> NewJob(email)]
    /\ results = <<>>
    /\ queue = [r \in ResultIds |-> 0]
    /\ exp = [c \in DOMAIN chunks |-> NewCall(chunks[c])]
    /\ w = [r \in ResultIds |-> IdleWorker]
    /\ retries = 0
    /\ caller = IdleCaller
    /\ calls = 0
    /\ mails = 0
    /\ now = 1
    /\ authors = JobAuthors
    /\ NotNotified

Init == \E email \in {NoEmail, OpsEmail} : InitWith(JobFiles, JobVersions, JobChunks, email)

----------------------------------------------------------------------------
(* add_validation_jobs(pks, job_pk), one call per chunk c. *)

\* (mutant) the worker is keyed by the file id
DelayFileId(e) == e.id

\* the pk handed to bulk_validate_file.delay
DelayArg(e) == e.result

\* (mutant) an add-on without files ends the call
RestUnlessEmpty(addons, ids) == IF ids = {} THEN <<>> ELSE Tail(addons)

\* the add-ons left to the loop after one add-on
RestOfBatch(addons, ids) == Tail(addons)

\* for addon in Addon.objects.filter(pk__in=pks): ... ids = set(ids)
ExpAddon(c) ==
    /\ c \in DOMAIN exp
    /\ exp[c].pc = "loop"
    /\ exp[c].addons # <<>>
    /\ LET addon == Head(exp[c].addons)
           ids == SelectIds(jobs[JobId], addon)
       IN  exp' = [exp EXCEPT ![c] =
                     [pc |-> IF ids = {} THEN "loop" ELSE "create",
                      addons |-> RestOfBatch(exp[c].addons, ids),
                      addon |-> addon, ids |-> ids, todo |-> ids,
                      id |-> NULL, result |-> NULL]]
    /\ UNCHANGED nvars
    /\ UNCHANGED <<files, versions, jobs, results, queue, w, retries, caller,
                   calls, mails, now>>

\* for id in set(ids): result = ValidationResult.objects.create(...)
ExpCreate(c) ==
    /\ c \in DOMAIN exp
    /\ exp[c].pc = "create"
    /\ Len(results) < MaxFiles
    /\ \E id \in exp[c].todo :
         /\ results' = Append(results, NewResult(JobId, id))
         /\ exp' = [exp EXCEPT ![c].pc = "delay", ![c].id = id,
                               ![c].todo = exp[c].todo \ {id},
                               ![c].result = Len(results) + 1]
    /\ UNCHANGED nvars
    /\ UNCHANGED <<files, versions, jobs, queue, w, retries, caller, calls, mails,
                   now>>

\* bulk_validate_file.delay(result.pk)
ExpDelay(c) ==
    /\ c \in DOMAIN exp
    /\ exp[c].pc = "delay"
    /\ DelayArg(exp[c]) \in ResultIds
    /\ queue' = [queue EXCEPT ![DelayArg(exp[c])] = @ + 1]
    /\ exp' = [exp EXCEPT ![c].pc = IF exp[c].todo = {} THEN "loop" ELSE "create"]
    /\ UNCHANGED nvars
    /\ UNCHANGED <<files, versions, jobs, results, w, retries, caller, calls, mails,
                   now>>

\* the call has returned
ExpDone(c) == exp[c].pc = "loop" /\ exp[c].addons = <<>>

----------------------------------------------------------------------------
(* tally_job_results(job_id). *)

\* the rows the aggregate query reads
RowsOf(job_id) == {r \in 1..Len(results) : results[r].validation_job = job_id}

\* select sum(1), sum(case when completed IS NOT NULL then 1 else 0 end)
\* (SQL sums over no rows are NULL)
TallyCounts(job_id) ==
    LET rows == RowsOf(job_id)
    IN  IF rows = {}
        THEN [total |-> NULL, completed |-> NULL]
        ELSE [total |-> Cardinality(rows),
              completed |-> Cardinality({r \in rows : results[r].completed # NULL})]

\* if completed == total
JobFinished(total, completed) == completed = total

\* job.update(completed=datetime.now()); if job.finish_email: send_mail(...)
FinishJob(job_id) ==
    /\ jobs' = [jobs EXCEPT ![job_id].completed = now]
    /\ now' = now + 1
    /\ mails' = IF jobs[job_id].finish_email # NoEmail THEN mails + 1 ELSE mails

----------------------------------------------------------------------------
(* bulk_validate_file(result_id), the runs of the message of result pk r. *)

\* what run_validator returns or raises
Outcomes == {"clean", "errors", "raise"}

\* sys.exc_info() of the validator's exception
ExcInfo == "exc_info"

\* ''.join(traceback.format_exception(*task_error))
FormatException(task_error) == "Traceback"

\* ValidationResult.apply_validation(validation)
apply_validation(res, validation) ==
    [res EXCEPT !.validation = validation,
                !.errors = IF validation = "errors" THEN 1 ELSE 0]

\* (mutant) no except clause: the validator's exception leaves the task at once
AfterValidateUncaught(task_error) == IF task_error # None THEN "failed" ELSE "save"

\* (mutant) tally_job_results is called before the row is saved
TallyBeforeSave(task_error) == "tally"

\* where the run goes once the try block is left
AfterValidate(task_error) == "save"

\* how the run ends: raise etype, val, tb if task_error, else return
Exit(task_error) == IF task_error # None THEN "failed" ELSE "done"

\* a run that has ended (its locals are gone)
Ended(task_error) == [IdleWorker EXCEPT !.pc = Exit(task_error)]

\* res = ValidationResult.objects.get(pk=result_id), then the try block
Run(r, outcome) ==
    LET task_error == IF outcome = "raise" THEN ExcInfo ELSE None
    IN  [pc |-> AfterValidate(task_error), res |-> results[r],
         task_error |-> task_error,
         validation |-> IF outcome = "raise" THEN None ELSE outcome,
         total |-> NULL, completed |-> NULL, was |-> NULL]

\* the queue delivers the message for the first time
Start(r) ==
    /\ w[r].pc = "idle"
    /\ queue[r] > 0
    /\ r <= Len(results)
    /\ \E outcome \in Outcomes : w' = [w EXCEPT ![r] = Run(r, outcome)]
    /\ queue' = [queue EXCEPT ![r] = @ - 1]
    /\ UNCHANGED nvars
    /\ UNCHANGED <<files, versions, jobs, results, exp, retries, caller, calls, mails,
                   now>>

\* the queue delivers the message again (its retry policy, or a lost ack),
\* once the run before it has ended
Retry(r) ==
    /\ w[r].pc \in {"done", "failed"}
    /\ retries + calls < MaxRepeats
    /\ \E outcome \in Outcomes : w' = [w EXCEPT ![r] = Run(r, outcome)]
    /\ retries' = retries + 1
    /\ UNCHANGED nvars
    /\ UNCHANGED <<files, versions, jobs, results, queue, exp, caller, calls, mails,
                   now>>

\* (mutant) the completion timestamp is set on the success branch only
CompletedOnSuccess(res, task_error, validation) ==
    IF task_error # None
    THEN [res EXCEPT !.task_error = FormatException(task_error)]
    ELSE apply_validation([res EXCEPT !.completed = now], validation)

\* res.completed = datetime.now(); task_error or apply_validation
Completed(res, task_error, validation) ==
    LET done == [res EXCEPT !.completed = now]
    IN  IF task_error # None
        THEN [done EXCEPT !.task_error = FormatException(task_error)]
        ELSE apply_validation(done, validation)

\* (mutant) the save cascades to the job of the row and marks it completed
SaveWithJob(r) ==
    /\ w[r].pc = "save"
    /\ LET res == Completed(w[r].res, w[r].task_error, w[r].validation)
       IN  /\ results' = [results EXCEPT ![r] = res]
           /\ w' = [w EXCEPT ![r].res = res, ![r].pc = "tally"]
           /\ jobs' = [jobs EXCEPT ![res.validation_job].completed = now]
    /\ now' = now + 1
    /\ UNCHANGED nvars
    /\ UNCHANGED <<files, versions, queue, exp, retries, caller, calls, mails>>

\* ...; res.save()
Save(r) ==
    /\ w[r].pc = "save"
    /\ LET res == Completed(w[r].res, w[r].task_error, w[r].validation)
       IN  /\ results' = [results EXCEPT ![r] = res]
           /\ w' = [w EXCEPT ![r].res = res, ![r].pc = "tally"]
    /\ now' = now + 1
    /\ UNCHANGED nvars
    /\ UNCHANGED <<files, versions, jobs, queue, exp, retries, caller, calls, mails>>

\* tally_job_results(res.validation_job.id): the aggregate query
TallyQuery(r) ==
    /\ w[r].pc = "tally"
    /\ LET job_id == w[r].res.validation_job
           t == TallyCounts(job_id)
       IN  w' = [w EXCEPT ![r] =
                   IF JobFinished(t.total, t.completed)
                   THEN [@ EXCEPT !.total = t.total, !.completed = t.completed,
                                  !.was = jobs[job_id].completed, !.pc = "update"]
                   ELSE Ended(w[r].task_error)]
    /\ UNCHANGED nvars
    /\ UNCHANGED <<files, versions, jobs, results, queue, exp, retries, caller,
                   calls, mails, now>>

\* tally_job_results: the job has finished
TallyUpdate(r) ==
    /\ w[r].pc = "update"
    /\ FinishJob(w[r].res.validation_job)
    /\ w' = [w EXCEPT ![r] = Ended(w[r].task_error)]
    /\ UNCHANGED nvars
    /\ UNCHANGED <<files, versions, results, queue, exp, retries, caller, calls>>

----------------------------------------------------------------------------
(* tally_job_results(job_id) called on its own. *)

CallQuery ==
    /\ caller.pc = "idle"
    /\ retries + calls < MaxRepeats
    /\ calls' = calls + 1
    /\ LET t == TallyCounts(JobId)
       IN  caller' = IF JobFinished(t.total, t.completed)
                     THEN [pc |-> "update", total |-> t.total,
                           completed |-> t.completed, was |-> jobs[JobId].completed]
                     ELSE IdleCaller
    /\ UNCHANGED nvars
    /\ UNCHANGED <<files, versions, jobs, results, queue, exp, w, retries, mails,
                   now>>

CallUpdate ==
    /\ caller.pc = "update"
    /\ FinishJob(JobId)
    /\ caller' = IdleCaller
    /\ UNCHANGED nvars
    /\ UNCHANGED <<files, versions, results, queue, exp, w, retries, calls>>

----------------------------------------------------------------------------
(* notify_success(version_pks, job_pk, data) and notify_failed(file_pks,    *)
(* job_pk, data): each task runs in one piece, and job_pk is JobId.        *)

\* the argument lists an operator passes: every pk, or all but one
PkSets(ids) == {ids} \cup {ids \ {x} : x \in ids}

\* the truth value Python gives a count column
Truthy(n) == n # 0 /\ n # NULL

\* the rows of the job for the files of version v
RowsOfVersion(job_id, v) ==
    {r \in RowsOf(job_id) : results[r].file \in FilesOf(v)}

\* (mutant) a version is skipped only when every file of it has errors
AllErrors(job_id, v) ==
    /\ RowsOfVersion(job_id, v) # {}
    /\ \A r \in RowsOfVersion(job_id, v) : Truthy(results[r].errors)

\* any(errors), errors the column of the job's rows for the files of v
AnyErrors(job_id, v) ==
    \E r \in RowsOfVersion(job_id, v) : Truthy(results[r].errors)

\* (mutant) every version of the catalog is visited
AllVersions(version_pks) == DOMAIN versions

\* Version.objects.filter(pk__in=version_pks)
VersionsIn(version_pks) == version_pks \cap DOMAIN versions

\* version.apps.filter(application=job.curr_max_version.application); the
\* current-max version of a job is a version of the job's application
JobApps(job, v) == {app \in versions[v].apps : app.application = job.application}

\* (mutant) the target is not compared with the entry
MaxIsCurrent(job, app) == app.max = job.curr_max_version

\* app.max.version == job.curr_max_version.version and
\* job.target_version.version != app.max.version
Qualifies(job, app) ==
    /\ app.max = job.curr_max_version
    /\ job.target_version # app.max

\* app_flag once the loop over the entries has ended
AppFlag(job, v) == \E app \in JobApps(job, v) : Qualifies(job, app)

\* the entries of v after app.max = job.target_version; app.save()
Bumped(job, v) ==
    [versions[v] EXCEPT !.apps =
        { IF app \in JobApps(job, v) /\ Qualifies(job, app)
          THEN [app EXCEPT !.max = job.target_version]
          ELSE app : app \in versions[v].apps }]

\* a message: the mail function it was handed to, its recipient, and the
\* version and result rows its context was rendered from
Mail(via, to, v, rows) == [via |-> via, to |-> to, version |-> v, results |-> rows]

\* amo.log(amo.LOG.BULK_VALIDATION_UPDATED, version.addon, version, details)
UpdatedEntry(job, v) ==
    [action |-> "BULK_VALIDATION_UPDATED", addon |-> versions[v].addon,
     version |-> v, file |-> NULL, target |-> job.target_version]

\* amo.log(amo.LOG.BULK_VALIDATION_EMAILED, addon, version, details)
EmailedEntry(job, r) ==
    [action |-> "BULK_VALIDATION_EMAILED",
     addon |-> AddonOfFile(results[r].file),
     version |-> files[results[r].file].version, file |-> results[r].file,
     target |-> job.target_version]

\* the versions whose max version the call updates and announces
ToBump(job, version_pks) ==
    {v \in VersionsIn(version_pks) : ~AnyErrors(JobId, v) /\ AppFlag(job, v)}

NotifySuccess ==
    /\ call = NoCall
    /\ \E version_pks \in PkSets(VersionIds), dry_run \in BOOLEAN :
         LET job == jobs[JobId]
             bump == ToBump(job, version_pks)
             via == IF dry_run THEN "preview_success_mail" ELSE "send_mail"
             sent == UNION { {Mail(via, a, v, RowsOfVersion(JobId, v)) :
                                a \in authors[versions[v].addon]} : v \in bump }
             logged == {m.version : m \in sent}
         IN  /\ call' = [fn |-> "notify_success", pks |-> version_pks,
                         preview_only |-> dry_run]
             /\ versions' = [v \in DOMAIN versions |->
                               IF v \in bump /\ ~dry_run
                               THEN Bumped(job, v) ELSE versions[v]]
             /\ outbox' = outbox (+) SetToBag(sent)
             \* send_mail(*args, **kwargs) and amo.log(...) go together
             /\ audit' = IF dry_run THEN audit
                         ELSE audit (+)
                              [e \in {UpdatedEntry(job, v) : v \in logged} |->
                                 Cardinality({m \in sent : m.version = e.version})]
    /\ UNCHANGED <<files, jobs, results, queue, exp, w, retries, caller, calls,
                   mails, now, authors>>

\* (mutant) the rows of any job for the given files
RowsOfFiles(job_id, file_pks) ==
    {r \in 1..Len(results) : results[r].file \in file_pks}

\* ValidationResult.objects.filter(validation_job=job, file__pk__in=file_pks)
FailedRows(job_id, file_pks) ==
    {r \in RowsOf(job_id) : results[r].file \in file_pks}

NotifyFailed ==
    /\ call = NoCall
    /\ \E file_pks \in PkSets(FileIds), preview_only \in BOOLEAN :
         LET job == jobs[JobId]
             rows == FailedRows(JobId, file_pks)
             via == IF preview_only THEN "preview_failure_mail" ELSE "send_mail"
             sent == UNION { {Mail(via, a, files[results[r].file].version, {r}) :
                                a \in authors[AddonOfFile(results[r].file)]} :
                             r \in rows }
         IN  /\ call' = [fn |-> "notify_failed", pks |-> file_pks,
                         preview_only |-> preview_only]
             /\ outbox' = outbox (+) SetToBag(sent)
             \* amo.log(...) closes every turn of the loop over the rows
             /\ audit' = audit (+)
                            [e \in {EmailedEntry(job, r) : r \in rows} |->
                               Cardinality({r \in rows : EmailedEntry(job, r) = e})]
    /\ UNCHANGED <<files, versions, jobs, results, queue, exp, w, retries, caller,
                   calls, mails, now, authors>>

----------------------------------------------------------------------------
(* Specifications. *)

ExpNext == \E c \in ChunkIds : ExpAddon(c) \/ ExpCreate(c) \/ ExpDelay(c)

WorkerNext ==
    \E r \in ResultIds : Start(r) \/ Save(r) \/ TallyQuery(r) \/ TallyUpdate(r)

Next ==
    \/ ExpNext
    \/ WorkerNext
    \/ \E r \in ResultIds : Retry(r)
    \/ CallQuery
    \/ CallUpdate

\* the job runs: expansion in chunks, workers, redeliveries, direct tally calls
Spec == Init /\ [][Next]_vars

\* the job as the queue runs it when every message is delivered once and
\* nothing else calls tally_job_results
JobNext == ExpNext \/ WorkerNext

JobSpec == Init /\ [][JobNext]_vars

\* the same, with every step of the expansion and of the workers eventually
\* taken while it stays possible (the queue executes every task it holds)
FairSpec == Spec /\ WF_vars(ExpNext) /\ WF_vars(WorkerNext)

\* the job once both add_validation_jobs calls have returned and no worker has
\* started: one row and one message per selected file, in either order
Expanded(email, first) ==
    /\ files = JobFiles
    /\ versions = JobVersions
    /\ jobs = [j \in JobIds |-> NewJob(email)]
    /\ results = << NewResult(JobId, first), NewResult(JobId, 5 - first) >>
    /\ queue = [r \in ResultIds |-> IF r <= 2 THEN 1 ELSE 0]
    /\ exp = << [pc |-> "loop", addons |-> <<>>, addon |-> 2, ids |-> {2},
                 todo |-> {}, id |-> 2, result |-> first - 1],
                [pc |-> "loop", addons |-> <<>>, addon |-> 3, ids |-> {3},
                 todo |-> {}, id |-> 3, result |-> 4 - first] >>
    /\ w = [r \in ResultIds |-> IdleWorker]
    /\ retries = 0
    /\ caller = IdleCaller
    /\ calls = 0
    /\ mails = 0
    /\ now = 1
    /\ authors = JobAuthors
    /\ NotNotified

ExpandedInit ==
    \E email \in {NoEmail, OpsEmail}, first \in {2, 3} : Expanded(email, first)

\* N workers, one per result row, each run once and concurrently
WorkersSpec == ExpandedInit /\ [][WorkerNext]_vars

\* the selection of add_validation_jobs over every catalog within the bounds:
\* one call for add-on 1, up to ids = set(ids)
SelInit ==
    \E fs \in FileTables, vs \in VersionTables :
        InitWith(fs, vs, << <<1>> >>, NoEmail)

SelNext == \E c \in ChunkIds : ExpAddon(c)

SelSpec == SelInit /\ [][SelNext]_vars

\* a second job, of the same application, whose rows share the table
OtherJobId == 2

\* the catalog of the notifier runs: add-on 1 with files 1, 2 in version 1,
\* files 3, 4 in version 2 and so on; the last versions have no file
NotifyFiles ==
    [f \in FileIds |-> [version |-> (f + 1) \div 2, status |-> STATUS_PUBLIC]]

\* a version the job can bump, with an entry of another application
Bumpable ==
    [addon |-> 1, apps |-> {Compat(App, CurrMax), Compat(OtherApp, CurrMax)}]

\* a version whose entry is at the target version already
AtTarget == [addon |-> 1, apps |-> {Compat(App, Target)}]

\* at most one version of a catalog is at the target version (the notifiers
\* treat each version on its own)
NotifyVersionTables ==
    { t \in [VersionIds -> {Bumpable, AtTarget}] :
        \A u, v \in VersionIds : t[u] = AtTarget /\ t[v] = AtTarget => u = v }

\* the states bulk_validate_file leaves the row of file f in: not run yet,
\* validated without or with errors, validator raised; or a row of the other
\* job, validated with errors
RowStates(f) ==
    LET run(job_pk) == [NewResult(job_pk, f) EXCEPT !.completed = 1]
    IN  { NewResult(JobId, f),
          apply_validation(run(JobId), "clean"),
          apply_validation(run(JobId), "errors"),
          [run(JobId) EXCEPT !.task_error = FormatException(ExcInfo)],
          apply_validation(run(OtherJobId), "errors") }

\* one row per file, the row of file f with pk f
ResultTables ==
    { t \in [ResultIds -> UNION {RowStates(f) : f \in FileIds}] :
        \A r \in ResultIds : t[r] \in RowStates(r) }

\* a job whose rows exist and whose notifier has not run: every catalog,
\* result table and author list within the bounds; the target of the job is
\* a later version or (a job that bumps nothing) its current-max version
NotifyInit ==
    \E vs \in NotifyVersionTables, rs \in ResultTables,
       target \in {Target, CurrMax}, users \in {{}, {1}, {1, 2}} :
        /\ files = NotifyFiles
        /\ versions = vs
        /\ jobs = [j \in {JobId, OtherJobId} |->
                     IF j = JobId
                     THEN [NewJob(NoEmail) EXCEPT !.target_version = target]
                     ELSE NewJob(NoEmail)]
        /\ results = rs
        /\ queue = [r \in ResultIds |-> 0]
        /\ exp = <<>>
        /\ w = [r \in ResultIds |-> IdleWorker]
        /\ retries = 0
        /\ caller = IdleCaller
        /\ calls = 0
        /\ mails = 0
        /\ now = 2
        /\ authors = [a \in AddonIds |-> users]
        /\ NotNotified

\* one run of notify_success on such a job
NotifySuccessSpec == NotifyInit /\ [][NotifySuccess]_vars

\* one run of notify_failed on such a job
NotifyFailedSpec == NotifyInit /\ [][NotifyFailed]_vars

\* the job as the queue runs it, and one notifier run at any moment of it
FrameNext == JobNext \/ NotifySuccess \/ NotifyFailed

FrameSpec == Init /\ [][FrameNext]_vars

----------------------------------------------------------------------------
(* Claims. *)

\* every run of a worker whose row exists has ended
AllWorkersEnded == \A r \in 1..Len(results) : w[r].pc \in {"done", "failed"}

\* C1: for a job with N >= 1 result rows and an operator address, once the N
\* workers (one per row, run concurrently, each saving its row and then
\* tallying) have all ended, the completion e-mail was sent exactly once.
C1_ExactlyOneCompletionMail ==
    ( /\ Len(results) >= 1
      /\ jobs[JobId].finish_email # NoEmail
      /\ AllWorkersEnded )
    => mails = 1

\* the step is the job update of a tally call that began when the job was
\* already completed
UpdateOfCompletedJob ==
    \/ \E r \in ResultIds :
          w[r].pc = "update" /\ w[r].was # NULL /\ w'[r].pc # "update"
    \/ caller.pc = "update" /\ caller.was # NULL /\ caller'.pc # "update"

\* C2: a call of tally_job_results made when job.completed is already
\* non-null sends no operator e-mail and leaves job.completed as it is.
C2_TallyIdempotent ==
    [][ UpdateOfCompletedJob
        => /\ mails' = mails
           /\ jobs'[JobId].completed = jobs[JobId].completed ]_vars

\* C3: whenever job.completed is non-null, every ValidationResult row of the
\* job has a non-null completion timestamp.
C3_CompletedOnlyAfterResults ==
    jobs[JobId].completed # NULL
    => \A r \in RowsOf(JobId) : results[r].completed # NULL

\* every add_validation_jobs call has returned
AllExpanded == \A c \in DOMAIN exp : ExpDone(c)

\* C4: once the expansion has finished with at least one result, job.completed
\* eventually becomes non-null, whether the validator calls succeed or raise
\* (every enqueued worker being executed to its end).
C4_JobEventuallyCompleted ==
    (AllExpanded /\ Len(results) >= 1) ~> (jobs[JobId].completed # NULL)

\* the expansion is over, every validator call raised, and the job was marked
\* completed after the last row was
C4_Witness ==
    /\ AllExpanded
    /\ Len(results) >= 1
    /\ AllWorkersEnded
    /\ \A r \in 1..Len(results) :
          /\ results[r].task_error # None
          /\ results[r].validation = None
          /\ results[r].completed # NULL
          /\ jobs[JobId].completed > results[r].completed

\* the run of r is past its try block
InRun(r) == w[r].pc \in {"save", "tally", "update"}

\* C5: when the validator raises, the worker applies no validation outcome,
\* stores the error trace in task_error, sets the completion timestamp and
\* saves the row, then calls tally_job_results, and only then ends failed
\* (re-raising the validator's exception).
C5_FailedRunPersistsThenRaises ==
    [][ \A r \in ResultIds :
          \* the save of a run whose validator raised
          /\ (w[r].pc = "save" /\ w[r].task_error # None /\ w'[r] # w[r])
             => /\ results'[r].validation = w[r].res.validation
                /\ results'[r].errors = w[r].res.errors
                /\ results'[r].task_error = FormatException(w[r].task_error)
                /\ results'[r].completed # NULL
                /\ w'[r].pc = "tally"
          \* a run ends failed only out of its tally call, the row saved
          /\ (w[r].pc # "failed" /\ w'[r].pc = "failed")
             => /\ w[r].pc \in {"tally", "update"}
                /\ w[r].task_error # None
                /\ results[r].task_error # None
                /\ results[r].completed # NULL
          \* and a run whose validator raised ends no other way
          /\ (InRun(r) /\ w[r].task_error # None /\ ~InRun(r)')
             => w'[r].pc = "failed"
      ]_vars

\* a run has ended failed, its row holding the trace and no outcome
C5_Witness ==
    \E r \in 1..Len(results) :
        /\ w[r].pc = "failed"
        /\ results[r].task_error # None
        /\ results[r].validation = None
        /\ results[r].completed # NULL

\* C6: a result with a non-null completion timestamp never has both a
\* non-empty task_error and a non-empty validation outcome.
C6_OutcomeExclusive ==
    \A r \in 1..Len(results) :
        results[r].completed # NULL
        => ~(results[r].task_error # None /\ results[r].validation # None)

\* C7: when a run failed and a later run of the same result succeeds, the row
\* it saves holds the validation outcome and no task error.
C7_RetryOverwritesError ==
    [][ \A r \in ResultIds :
          ( /\ w[r].pc = "save"
            /\ w[r].task_error = None
            /\ results[r].task_error # None
            /\ w'[r].pc = "tally" )
          => /\ results'[r].validation # None
             /\ results'[r].task_error = None
      ]_vars

\* the versions of an add-on that have a compatibility entry for the job's
\* application whose max is the job's current-max version
Matching(addon) ==
    { v \in VersionIds :
        /\ versions[v].addon = addon
        /\ Compat(jobs[JobId].application, jobs[JobId].curr_max_version)
              \in versions[v].apps }

\* version v has a file whose status is one of statuses
HasFile(v, statuses) ==
    \E f \in FileIds : files[f].version = v /\ files[f].status \in statuses

\* the latest matching version having such a file: no matching version with
\* such a file has a greater id
IsChosen(addon, v, statuses) ==
    /\ v \in Matching(addon)
    /\ HasFile(v, statuses)
    /\ \A u \in Matching(addon) : HasFile(u, statuses) => u <= v

\* file f is preliminary-eligible and belongs to a matching version
Eligible(addon, f) ==
    files[f].version \in Matching(addon) /\ files[f].status \in prelim_app

\* all files of the chosen version, and the eligible files of later versions
FromChosen(addon, v) ==
    { f \in FileIds :
        \/ files[f].version = v
        \/ Eligible(addon, f) /\ files[f].version > v }

\* the tier of the policy that applies to the add-on
Tier(addon) ==
    IF \E v \in Matching(addon) : HasFile(v, {STATUS_PUBLIC}) THEN "public"
    ELSE IF \E v \in Matching(addon) : HasFile(v, LITE_STATUSES) THEN "preliminary"
    ELSE "eligible"

\* ids is what the three-tier policy gives for the add-on
FollowsPolicy(addon, ids) ==
    /\ Tier(addon) = "public"
       => \E v \in VersionIds :
             /\ IsChosen(addon, v, {STATUS_PUBLIC})
             /\ ids = FromChosen(addon, v)
             /\ \A f \in ids : files[f].version >= v
    /\ Tier(addon) = "preliminary"
       => \E v \in VersionIds :
             /\ IsChosen(addon, v, LITE_STATUSES)
             /\ ids = FromChosen(addon, v)
             /\ \A f \in ids : files[f].version >= v
    /\ Tier(addon) = "eligible"
       => ids = {f \in FileIds : Eligible(addon, f)}

\* C8: the file ids add_validation_jobs selects for an add-on are those of the
\* three-tier policy over the versions matching the job's application and
\* current-max version, and under tiers (1) and (2) none of them belongs to a
\* version older than the chosen one.
C8_SelectionFollowsPolicy ==
    \A c \in DOMAIN exp :
        exp[c].addon # NULL => FollowsPolicy(exp[c].addon, exp[c].ids)

\* tier (1) with an eligible file of an older matching version left out and an
\* eligible file of a later version taken with the public file
C8_Witness ==
    \E c \in DOMAIN exp, v \in VersionIds, f, g, h \in FileIds :
        /\ exp[c].addon # NULL
        /\ IsChosen(exp[c].addon, v, {STATUS_PUBLIC})
        /\ Eligible(exp[c].addon, f) /\ files[f].version < v /\ f \notin exp[c].ids
        /\ files[g].version = v /\ g \in exp[c].ids
        /\ Eligible(exp[c].addon, h) /\ files[h].version > v /\ h \in exp[c].ids

\* no public, preliminary or preliminary-eligible file among the add-on's
\* matching versions
NoneQualifying(addon) ==
    \A f \in FileIds :
        files[f].version \in Matching(addon)
        => files[f].status \notin ({STATUS_PUBLIC} \cup LITE_STATUSES \cup prelim_app)

\* the add-ons of the chunks
Range(seq) == {seq[i] : i \in DOMAIN seq}

\* a message for result pk r was enqueued (and maybe delivered)
Enqueued(r) == queue[r] + (IF w[r].pc = "idle" THEN 0 ELSE 1)

\* C9: an add-on with no qualifying file gets no result row and no worker,
\* the call does not fail on it, and the other add-ons of the batch are
\* processed: once the call has returned, each of their selected files has
\* its row.
C9_EmptySelectionIsSkipped ==
    /\ \A r \in 1..Len(results) : ~NoneQualifying(AddonOfFile(results[r].file))
    /\ \A r \in ResultIds :
          Enqueued(r) > 0
          => r <= Len(results) /\ ~NoneQualifying(AddonOfFile(results[r].file))
    /\ \A c \in DOMAIN exp :
          /\ (exp[c].addon # NULL /\ NoneQualifying(exp[c].addon))
             => exp[c].pc = "loop" /\ exp[c].ids = {}
          /\ ExpDone(c)
             => \A a \in Range(JobChunks[c]) :
                   \A f \in SelectIds(jobs[JobId], a) :
                       \E r \in 1..Len(results) : results[r].file = f

\* the call has passed an add-on without qualifying files, made no row for
\* it, and has made the row of the add-on after it
C9_Witness ==
    \E c \in DOMAIN exp : \E a \in Range(JobChunks[c]) :
        /\ NoneQualifying(a)
        /\ exp[c].addon # NULL
        /\ exp[c].addon # a
        /\ ExpDone(c)
        /\ \E r \in 1..Len(results) : AddonOfFile(results[r].file) = exp[c].addon
        /\ \A r \in 1..Len(results) : AddonOfFile(results[r].file) # a

\* the loop of call c has created the row of file f
RowMade(c, f) ==
    /\ exp[c].addon # NULL
    /\ \/ exp[c].addon = AddonOfFile(f) /\ f \in exp[c].ids \ exp[c].todo
       \/ /\ AddonOfFile(f) \in Range(JobChunks[c])
          /\ AddonOfFile(f) \notin Range(exp[c].addons)
          /\ AddonOfFile(f) # exp[c].addon
          /\ f \in SelectIds(jobs[JobId], AddonOfFile(f))

\* call c has created row r and not yet enqueued its worker
DelayPending(r) == \E c \in DOMAIN exp : exp[c].pc = "delay" /\ exp[c].result = r

----------------------------------------------------------------------------
(* Claims about the notifiers. *)

\* the job has a result with validation errors for a file of version v
HasFailedFile(v) ==
    \E r \in 1..Len(results) :
        /\ results[r].validation_job = JobId
        /\ files[results[r].file].version = v
        /\ results[r].errors > 0

\* the job has a result without validation errors for a file of version v
HasPassedFile(v) ==
    \E r \in 1..Len(results) :
        /\ results[r].validation_job = JobId
        /\ files[results[r].file].version = v
        /\ results[r].validation = "clean"

\* version v has an entry notify_success bumps when nothing holds it back
HasBumpableEntry(v) ==
    /\ Compat(App, CurrMax) \in versions[v].apps
    /\ jobs[JobId].application = App
    /\ jobs[JobId].curr_max_version = CurrMax
    /\ jobs[JobId].target_version = Target

\* C11: notify_success never changes the max version of any compatibility
\* entry of a version, and sends no success notification for it, when at
\* least one of the job's results for a file of that version has validation
\* errors, even if the other files of the version passed.
C11_AllOrNothing ==
    [][\A v \in VersionIds :
          call'.fn = "notify_success" /\ HasFailedFile(v)
             => /\ versions'[v] = versions[v]
                /\ \A m \in BagToSet(outbox') : m.version # v]_vars

\* a real run has passed over a listed version that has an entry to bump,
\* authors to tell and one passing file next to a failing one, and has
\* announced another version
C11_Witness ==
    /\ call.fn = "notify_success"
    /\ ~call.preview_only
    /\ outbox # EmptyBag
    /\ \E v \in call.pks :
          /\ HasFailedFile(v)
          /\ HasPassedFile(v)
          /\ HasBumpableEntry(v)
          /\ authors[versions[v].addon] # {}

\* C12: a run of notify_success or of notify_failed with preview_only = true
\* never changes any persisted max-version field of the catalog and never
\* writes an audit-log entry, and every message it produces goes through the
\* preview delivery path, never through real send_mail.
C12_PreviewIsolation ==
    [][call'.fn \in {"notify_success", "notify_failed"} /\ call'.preview_only
          => /\ versions' = versions
             /\ audit' = audit
             /\ \A m \in BagToSet(outbox') :
                   m.via \in {"preview_success_mail", "preview_failure_mail"}]_vars

\* version v has an entry for the job's application whose max version is the
\* job's current-max version and differs from the job's target version
EntryQualifies(v) ==
    \E app \in versions[v].apps :
        /\ app.application = jobs[JobId].application
        /\ app.max = jobs[JobId].curr_max_version
        /\ app.max # jobs[JobId].target_version

\* C13: in notify_success, a compatibility entry whose current max version
\* already equals the job's target version is never modified and never causes
\* a notification; if no entry of a version qualifies for a bump, no message
\* is sent and no audit entry is written for that version.
C13_RedundantBumpGuard ==
    [][\A v \in VersionIds :
          call'.fn = "notify_success"
             => /\ \A app \in versions[v].apps :
                      app.max = jobs[JobId].target_version
                         => app \in versions'[v].apps
                /\ ~EntryQualifies(v)
                      => /\ \A m \in BagToSet(outbox') : m.version # v
                         /\ \A e \in BagToSet(audit') : e.version # v]_vars

\* a real run has passed over a listed version whose files raised no error,
\* whose add-on has authors and whose entry is at the target version, and has
\* announced another version
C13_Witness ==
    /\ call.fn = "notify_success"
    /\ ~call.preview_only
    /\ outbox # EmptyBag
    /\ audit # EmptyBag
    /\ jobs[JobId].target_version = Target
    /\ \E v \in call.pks :
          /\ ~HasFailedFile(v)
          /\ versions[v] = AtTarget
          /\ authors[versions[v].addon] # {}
          /\ \A m \in BagToSet(outbox) : m.version # v

\* the entries of a set of entries that are for the job's application
ForJobApp(apps) == {app \in apps : app.application = jobs[JobId].application}

\* what the claim says entry app is after the call
EntryAfter(app) ==
    IF /\ app.max = jobs[JobId].curr_max_version
       /\ jobs[JobId].target_version # jobs[JobId].curr_max_version
    THEN [app EXCEPT !.max = jobs[JobId].target_version]
    ELSE app

\* C14: after a non-preview notify_success, for every version in scope whose
\* files all passed and every compatibility entry of it for the job's
\* application: the entry's persisted max version equals the job's target
\* version if before the call it equalled the job's current-max version and
\* the target differs from it; otherwise the entry's max version is
\* unchanged. Entries of versions not in version_pks are unchanged.
C14_BumpEffect ==
    [][call'.fn = "notify_success" /\ ~call'.preview_only
          => \A v \in VersionIds :
                /\ v \in call'.pks /\ ~HasFailedFile(v)
                      => ForJobApp(versions'[v].apps)
                            = {EntryAfter(app) : app \in ForJobApp(versions[v].apps)}
                /\ v \notin call'.pks => versions'[v] = versions[v]]_vars

\* a real run has bumped the entry of a listed version and kept its entry of
\* another application, and has left alone a version it was not given whose
\* entry it would have bumped
C14_Witness ==
    /\ call.fn = "notify_success"
    /\ ~call.preview_only
    /\ jobs[JobId].target_version = Target
    /\ \E v \in call.pks :
          /\ ~HasFailedFile(v)
          /\ HasPassedFile(v)
          /\ versions[v].apps = {Compat(App, Target), Compat(OtherApp, CurrMax)}
    /\ \E u \in VersionIds \ call.pks :
          /\ ~HasFailedFile(u)
          /\ versions[u] = Bumpable

\* how many entries of the audit log a are about version v
EntriesAbout(a, v) ==
    LET es == {e \in BagToSet(a) : e.version = v}
    IN  IF es = {} THEN 0 ELSE BagCardinality([e \in es |-> CopiesIn(e, a)])

\* C15: a non-preview notify_success records exactly one audit-log entry per
\* version for which a bump notification is sent, whatever the number of
\* authors of the add-on.
C15_OneAuditEntryPerVersion ==
    [][call'.fn = "notify_success" /\ ~call'.preview_only
          => \A v \in VersionIds :
                EntriesAbout(audit', v)
                   = IF \E m \in BagToSet(outbox') : m.version = v THEN 1 ELSE 0]_vars

\* the rows of the job whose file is in file_pks
GivenRows(file_pks) ==
    {r \in 1..Len(results) :
        results[r].validation_job = JobId /\ results[r].file \in file_pks}

\* the messages of outbox o about row r for author a
MailsAbout(o, r, a) == {m \in BagToSet(o) : m.results = {r} /\ m.to = a}

\* C16: notify_failed produces exactly one message per pair (result, author)
\* for the ValidationResult rows whose job is the given job and whose file is
\* in file_pks, delivered through real send_mail when preview_only is false
\* and through the preview path when it is true; it produces no message for
\* results of other jobs or other files, and it never changes any max-version
\* field or any ValidationResult or ValidationJob row.
C16_FailureMails ==
    [][call'.fn = "notify_failed"
          => /\ \A r \in GivenRows(call'.pks) :
                   \A a \in authors[AddonOfFile(results[r].file)] :
                      /\ Cardinality(MailsAbout(outbox', r, a)) = 1
                      /\ \A m \in MailsAbout(outbox', r, a) :
                            /\ CopiesIn(m, outbox') = 1
                            /\ m.via = IF call'.preview_only
                                       THEN "preview_failure_mail" ELSE "send_mail"
             /\ \A m \in BagToSet(outbox') :
                   \E r \in GivenRows(call'.pks) :
                      /\ m.results = {r}
                      /\ m.to \in authors[AddonOfFile(results[r].file)]
             /\ versions' = versions
             /\ results' = results
             /\ jobs' = jobs]_vars

\* a real run has mailed the two authors about a row of the job, and has
\* passed over a row of the job for a file it was not given and a row of
\* another job for a file it was given
C16_Witness ==
    /\ call.fn = "notify_failed"
    /\ ~call.preview_only
    /\ \E r \in GivenRows(call.pks) :
          Cardinality(authors[AddonOfFile(results[r].file)]) = 2
    /\ BagCardinality(outbox) = 2 * Cardinality(GivenRows(call.pks))
    /\ \E r \in 1..Len(results) :
          results[r].validation_job = JobId /\ results[r].file \notin call.pks
    /\ \E r \in 1..Len(results) :
          results[r].validation_job = OtherJobId /\ results[r].file \in call.pks

----------------------------------------------------------------------------
(* Claims about the ordering and the frame of the tasks. *)

\* row r is stored as completed, with a validation outcome or a task error
StoredComplete(r) ==
    /\ r <= Len(results)
    /\ results[r].completed # NULL
    /\ results[r].validation # None \/ results[r].task_error # None

\* C17: within one bulk_validate_file run the result's completion write is
\* persisted before the worker's tally query is issued, so any tally call
\* that counts a result as completed reads a state in which that result's
\* completion and outcome/error are already stored; the tally triggered by a
\* worker always counts that worker's own result as completed.
C17_CompletionBeforeTally ==
    /\ [](\A r \in 1..Len(results) :
             results[r].completed # NULL => StoredComplete(r))
    /\ [][\A r \in ResultIds :
             w[r].pc = "tally" /\ w'[r] # w[r]
                => /\ StoredComplete(r)
                   /\ results[r] = w[r].res
                   /\ r \in RowsOf(w[r].res.validation_job)
                   /\ w'[r].pc = "update" => w'[r].completed >= 1]_vars

\* the tally query of a worker has counted every row of the job, its own
\* among them, as completed, while another worker still runs
C17_Witness ==
    \E r, q \in 1..Len(results) :
        /\ w[r].pc = "update"
        /\ w[r].completed = w[r].total
        /\ StoredComplete(r)
        /\ q # r
        /\ w[q].pc \in {"save", "tally"}

\* C18: tally_job_results marks a job completed only when total_results > 0:
\* calling it for a job that has zero ValidationResult rows leaves
\* job.completed null and sends no operator email.
C18_NoCompletionWithoutRows ==
    RowsOf(JobId) = {} => jobs[JobId].completed = NULL /\ mails = 0

\* the step is the update of a tally_job_results call
TallyUpdates ==
    \/ \E r \in ResultIds : w[r].pc = "update" /\ w'[r].pc # "update"
    \/ caller.pc = "update" /\ caller'.pc # "update"

\* C19: ValidationJob.completed is written only by tally_job_results:
\* add_validation_jobs, notify_success, notify_failed and the part of
\* bulk_validate_file outside its tally call leave every ValidationJob row
\* unchanged, and no operation of this module deletes a job or a result row.
C19_JobFrame ==
    [][/\ jobs' # jobs => TallyUpdates
       /\ exp' # exp \/ call' # call => jobs' = jobs
       /\ \A r \in ResultIds :
             w'[r] # w[r] /\ w[r].pc # "update" => jobs' = jobs
       /\ DOMAIN jobs' = DOMAIN jobs
       /\ \A j \in DOMAIN jobs :
             [jobs'[j] EXCEPT !.completed = jobs[j].completed] = jobs[j]
       /\ Len(results') >= Len(results)
       /\ \A r \in 1..Len(results) :
             /\ results'[r].validation_job = results[r].validation_job
             /\ results'[r].file = results[r].file]_vars

\* both expander calls have returned, every worker has run, the tally has
\* completed the job and a notifier has run: the job differs from the job
\* created in its completion timestamp only, and the rows are all there
C19_Witness ==
    /\ AllExpanded
    /\ AllWorkersEnded
    /\ call # NoCall
    /\ Len(results) = 2
    /\ jobs[JobId].completed # NULL
    /\ \E email \in {NoEmail, OpsEmail} :
          [jobs[JobId] EXCEPT !.completed = NULL] = NewJob(email)

\* the job has a result for a file of version v that is not completed, or
\* that ended with a task error, or whose validation outcome has errors
HasUnpassedResult(v) ==
    \E r \in 1..Len(results) :
        /\ results[r].validation_job = JobId
        /\ files[results[r].file].version = v
        /\ \/ results[r].completed = NULL
           \/ results[r].task_error # None
           \/ results[r].validation = None
           \/ results[r].errors > 0

\* C20: notify_success bumps a version's compatibility entry only when every
\* result of the job for a file of that version is completed with a
\* validation outcome that has no errors: a version having a result that is
\* still incomplete, or a result that ended with a task error, is never
\* bumped and gets no success notification.
C20_OnlyPassedResultsBump ==
    [][\A v \in VersionIds :
          call'.fn = "notify_success" /\ HasUnpassedResult(v)
             => /\ versions'[v] = versions[v]
                /\ \A m \in BagToSet(outbox') : m.version # v]_vars

====
